---- MODULE Spec2Model ----
(***************************************************************************)
(* Model of scripts/validate_links.py: the markdown link validator.        *)
(*                                                                         *)
(* Text is modelled as a sequence of tokens.  The characters the code      *)
(* inspects ("/", "#", ".", ":") are tokens of their own; a run of other   *)
(* characters ("docs", "md", "http") is one token.  A path is the sequence *)
(* of its segments below the filesystem root, each segment a sequence of   *)
(* tokens; every path the validator builds is absolute, because it is      *)
(* built from the resolved documentation root.                             *)
(***************************************************************************)
EXTENDS Integers, Sequences, FiniteSets, TLC

VARIABLES fs, docs_arg, docs_path, strict,
          pc, files, fidx, links, lidx, result, results, validated_files,
          exit_code, exc, totals, report,
          reads, evals, probes, warned, discovered, last, texts,
          max_depth, file_text, writes

vars == <<fs, docs_arg, docs_path, strict,
          pc, files, fidx, links, lidx, result, results, validated_files,
          exit_code, exc, totals, report,
          reads, evals, probes, warned, discovered, last, texts,
          max_depth, file_text, writes>>

\* the state of update_toc.py
tocvars == <<max_depth, file_text, writes>>

(***************************************************************************)
(* Bounds.                                                                 *)
(***************************************************************************)
MaxClimb == 3
MaxLinks == 2
MaxLines == 2
MaxDocLines == 3
MaxRuns == 3

(***************************************************************************)
(* str methods used by the validator.                                      *)
(***************************************************************************)
StartsWith(s, p) == Len(s) >= Len(p) /\ SubSeq(s, 1, Len(p)) = p

RECURSIVE LStripSlash(_)
LStripSlash(s) ==
    IF s # <<>> /\ Head(s) = "/" THEN LStripSlash(Tail(s)) ELSE s

HasHash(s) == \E i \in 1..Len(s) : s[i] = "#"

FirstHash(s) == CHOOSE i \in 1..Len(s) : s[i] = "#" /\ \A j \in 1..(i-1) : s[j] # "#"

\* str.split('#')[0]
SplitHash0(s) == IF HasHash(s) THEN SubSeq(s, 1, FirstHash(s) - 1) ELSE s

(***************************************************************************)
(* pathlib.PurePosixPath.                                                  *)
(***************************************************************************)
DotDot == <<".", ".">>

RECURSIVE SplitFrom(_, _, _)
SplitFrom(s, i, cur) ==
    IF i > Len(s) THEN <<cur>>
    ELSE IF s[i] = "/" THEN <<cur>> \o SplitFrom(s, i + 1, <<>>)
    ELSE SplitFrom(s, i + 1, Append(cur, s[i]))

IsRealSegment(g) == g # <<>> /\ g # <<".">>

\* the segments of a path string: empty and "." segments are dropped, ".." is kept
Segs(s) == SelectSeq(SplitFrom(s, 1, <<>>), IsRealSegment)

\* base / s
JoinPath(base, s) ==
    IF s # <<>> /\ s[1] = "/" THEN Segs(s) ELSE base \o Segs(s)

RECURSIVE PathStr(_)
PathStr(p) ==
    IF p = <<>> THEN <<"/">>
    ELSE IF Len(p) = 1 THEN <<"/">> \o p[1]
    ELSE PathStr(SubSeq(p, 1, Len(p) - 1)) \o <<"/">> \o p[Len(p)]

RECURSIVE RelStr(_)
RelStr(p) ==
    IF p = <<>> THEN <<".">>
    ELSE IF Len(p) = 1 THEN p[1]
    ELSE RelStr(SubSeq(p, 1, Len(p) - 1)) \o <<"/">> \o p[Len(p)]

Parent(p) == IF p = <<>> THEN <<>> ELSE SubSeq(p, 1, Len(p) - 1)

Name(p) == IF p = <<>> THEN <<>> ELSE p[Len(p)]

\* PurePath.suffix == '.md'
HasMdSuffix(p) ==
    LET n == Name(p) IN
    /\ Len(n) >= 3
    /\ n[Len(n) - 1] = "."
    /\ n[Len(n)] = "md"

IsUnder(p, base) == Len(p) >= Len(base) /\ SubSeq(p, 1, Len(base)) = base

\* PurePath.relative_to, defined when IsUnder(p, base)
RelativeTo(p, base) == SubSeq(p, Len(base) + 1, Len(p))

(***************************************************************************)
(* The filesystem: directories, regular files and symbolic links, each a   *)
(* set of canonical paths; a link points to a canonical path.              *)
(***************************************************************************)
IsLink(f, p) == \E l \in f.links : l.at = p

LinkTarget(f, p) == (CHOOSE l \in f.links : l.at = p).to

Entries(f) == f.dirs \cup f.files

\* the kernel's path walk, following symbolic links (os.stat)
RECURSIVE WalkFrom(_, _, _, _)
WalkFrom(f, cur, p, i) ==
    IF i > Len(p) THEN [ok |-> TRUE, path |-> cur]
    ELSE IF cur \notin f.dirs THEN [ok |-> FALSE, path |-> cur]
    ELSE IF p[i] = DotDot THEN WalkFrom(f, Parent(cur), p, i + 1)
    ELSE LET child == Append(cur, p[i]) IN
         IF child \in Entries(f) THEN WalkFrom(f, child, p, i + 1)
         ELSE IF IsLink(f, child) /\ LinkTarget(f, child) \in Entries(f)
              THEN WalkFrom(f, LinkTarget(f, child), p, i + 1)
         ELSE [ok |-> FALSE, path |-> child]

\* Path.exists()
Exists(f, p) == WalkFrom(f, <<>>, p, 1).ok

\* Path.is_file()
IsFile(f, p) == LET w == WalkFrom(f, <<>>, p, 1) IN w.ok /\ w.path \in f.files

\* Path.resolve(): os.path.realpath, not strict
RECURSIVE RealFrom(_, _, _, _)
RealFrom(f, cur, p, i) ==
    IF i > Len(p) THEN cur
    ELSE IF p[i] = DotDot THEN RealFrom(f, Parent(cur), p, i + 1)
    ELSE LET child == Append(cur, p[i]) IN
         IF IsLink(f, child) THEN RealFrom(f, LinkTarget(f, child), p, i + 1)
         ELSE RealFrom(f, child, p, i + 1)

Resolve(f, p) == RealFrom(f, <<>>, p, 1)

(***************************************************************************)
(* Sorting of paths: sorted() on Path objects compares the parts, segment  *)
(* by segment, as strings.                                                 *)
(***************************************************************************)
TokRank(t) ==
    CASE t = "#" -> 1
      [] t = "." -> 2
      [] t = "/" -> 3
      [] t = ":" -> 4
      [] t = "a" -> 10
      [] t = "b" -> 11
      [] t = "c" -> 12
      [] t = "d" -> 13
      [] t = "docs" -> 14
      [] t = "ln" -> 15
      [] t = "md" -> 16
      [] t = "notes" -> 17
      [] t = "proj" -> 18
      [] t = "s" -> 19
      [] t = "sub" -> 20
      [] t = "txt" -> 21
      [] OTHER -> 30

RECURSIVE SegLess(_, _)
SegLess(g, h) ==
    IF h = <<>> THEN FALSE
    ELSE IF g = <<>> THEN TRUE
    ELSE IF TokRank(Head(g)) # TokRank(Head(h)) THEN TokRank(Head(g)) < TokRank(Head(h))
    ELSE SegLess(Tail(g), Tail(h))

RECURSIVE PathLess(_, _)
PathLess(p, q) ==
    IF q = <<>> THEN FALSE
    ELSE IF p = <<>> THEN TRUE
    ELSE IF Head(p) # Head(q) THEN SegLess(Head(p), Head(q))
    ELSE PathLess(Tail(p), Tail(q))

RECURSIVE SortPaths(_)
SortPaths(S) ==
    IF S = {} THEN <<>>
    ELSE LET m == CHOOSE x \in S : \A y \in S \ {x} : PathLess(x, y)
         IN <<m>> \o SortPaths(S \ {m})

(***************************************************************************)
(* LinkValidator.get_markdown_files                                        *)
(***************************************************************************)
\* fnmatch(name, '*.md')
MatchesMd(p) ==
    LET n == Name(p) IN
    /\ Len(n) >= 2
    /\ n[Len(n) - 1] = "."
    /\ n[Len(n)] = "md"

\* Path.rglob('*.md'): every entry below the root, symbolic links included
\* but not descended into
RGlobMd(f, dp) ==
    {p \in Entries(f) \cup {l.at : l \in f.links} :
        /\ IsUnder(p, dp)
        /\ p # dp
        /\ MatchesMd(p)}

\* get_markdown_files without sorted(): the files in the order of the
\* directory scan, here the descending one
GetMarkdownFiles_Unsorted(f, dp) ==
    IF IsFile(f, dp)
    THEN IF HasMdSuffix(dp) THEN <<dp>> ELSE <<>>
    ELSE LET s == SortPaths(RGlobMd(f, dp))
         IN [i \in 1..Len(s) |-> s[Len(s) + 1 - i]]

GetMarkdownFiles(f, dp) ==
    IF IsFile(f, dp)
    THEN IF HasMdSuffix(dp) THEN <<dp>> ELSE <<>>
    ELSE SortPaths(RGlobMd(f, dp))

(***************************************************************************)
(* LinkValidator._validate_link                                            *)
(***************************************************************************)
\* a regex compiled with re.IGNORECASE would also match HTTP://
ExternalUrlRegex_IgnoreCase(url) ==
    \/ StartsWith(url, <<"http", ":", "/", "/">>)
    \/ StartsWith(url, <<"https", ":", "/", "/">>)
    \/ StartsWith(url, <<"HTTP", ":", "/", "/">>)

\* external_url_regex: ^https?://
ExternalUrlRegex(url) ==
    \/ StartsWith(url, <<"http", ":", "/", "/">>)
    \/ StartsWith(url, <<"https", ":", "/", "/">>)

\* line 124 without its test of '#'
LinkKind_NoAnchor(url) ==
    IF StartsWith(url, <<"mailto", ":">>) THEN "Mailto"
    ELSE IF ExternalUrlRegex(url) THEN "External"
    ELSE "Internal"

\* the branch of _validate_link a URL takes
LinkKind(url) ==
    IF StartsWith(url, <<"mailto", ":">>) THEN "Mailto"
    ELSE IF StartsWith(url, <<"#">>) THEN "Anchor"
    ELSE IF ExternalUrlRegex(url) THEN "External"
    ELSE "Internal"

\* the project root: docs_path.parent
ProjectRoot(dp) == Parent(dp)

\* lines 139-150: the candidate target, by the form of the URL
Candidate(f, dp, url, file_path) ==
    IF StartsWith(url, <<"/">>)
    THEN JoinPath(ProjectRoot(dp), LStripSlash(url))
    ELSE IF StartsWith(url, <<".", "/">>)
    THEN JoinPath(Parent(file_path), url)
    ELSE IF StartsWith(url, <<".", ".", "/">>)
    THEN Resolve(f, JoinPath(Parent(file_path), url))
    ELSE JoinPath(Parent(file_path), url)

\* lines 153-154: the anchor is cut from the text of the whole target path
StripAnchor(target) ==
    IF HasHash(PathStr(target))
    THEN Segs(SplitHash0(PathStr(target)))
    ELSE target

Target(f, dp, url, file_path) == StripAnchor(Candidate(f, dp, url, file_path))

\* a fallback that joins the relative path to the documentation root
AltPath_BelowDocsPath(dp, target) ==
    JoinPath(dp, LStripSlash(RelStr(RelativeTo(target, ProjectRoot(dp)))))

\* lines 160-165: the alternate path of the fallback, defined when the
\* target is below the project root
AltPath(dp, target) ==
    JoinPath(ProjectRoot(dp), LStripSlash(RelStr(RelativeTo(target, ProjectRoot(dp)))))

NoPath == << <<"?">> >>

Verdict(kind, out, detail, target, checks, nprobes, e) ==
    [kind |-> kind, out |-> out, detail |-> detail, target |-> target,
     checks |-> checks, probes |-> nprobes, exc |-> e]

\* an external check that probes in either mode
CheckExternal_AlwaysProbes(st, resp) ==
    IF resp.raised
    THEN Verdict("External", "error",
                 <<"External link check failed: ", resp.cause>>, NoPath, <<>>, 1, "none")
    ELSE IF resp.code >= 400
    THEN Verdict("External", "error",
                 <<"HTTP ", ToString(resp.code)>>, NoPath, <<>>, 1, "none")
    ELSE Verdict("External", "ok", <<>>, NoPath, <<>>, 1, "none")

\* an external check that accepts the status code 400
CheckExternal_Above400(st, resp) ==
    IF st
    THEN IF resp.raised
         THEN Verdict("External", "error",
                      <<"External link check failed: ", resp.cause>>, NoPath, <<>>, 1, "none")
         ELSE IF resp.code > 400
         THEN Verdict("External", "error",
                      <<"HTTP ", ToString(resp.code)>>, NoPath, <<>>, 1, "none")
         ELSE Verdict("External", "ok", <<>>, NoPath, <<>>, 1, "none")
    ELSE Verdict("External", "ok", <<>>, NoPath, <<>>, 0, "none")

\* an external check whose except clause passes
CheckExternal_SwallowsFailure(st, resp) ==
    IF st
    THEN IF resp.raised
         THEN Verdict("External", "ok", <<>>, NoPath, <<>>, 1, "none")
         ELSE IF resp.code >= 400
         THEN Verdict("External", "error",
                      <<"HTTP ", ToString(resp.code)>>, NoPath, <<>>, 1, "none")
         ELSE Verdict("External", "ok", <<>>, NoPath, <<>>, 1, "none")
    ELSE Verdict("External", "ok", <<>>, NoPath, <<>>, 0, "none")

\* lines 128-136: requests.head and the test of its status code
CheckExternal(st, resp) ==
    IF st
    THEN IF resp.raised
         THEN Verdict("External", "error",
                      <<"External link check failed: ", resp.cause>>, NoPath, <<>>, 1, "none")
         ELSE IF resp.code >= 400
         THEN Verdict("External", "error",
                      <<"HTTP ", ToString(resp.code)>>, NoPath, <<>>, 1, "none")
         ELSE Verdict("External", "ok", <<>>, NoPath, <<>>, 1, "none")
    ELSE Verdict("External", "ok", <<>>, NoPath, <<>>, 0, "none")

\* lines 138-171
CheckInternal(f, dp, url, file_path) ==
    LET target == Target(f, dp, url, file_path) IN
    IF ~Exists(f, target)
    THEN IF ~IsUnder(target, ProjectRoot(dp))
         THEN Verdict("Internal", "raise", <<>>, target, <<target>>, 0, "ValueError")
         ELSE LET alt_path == AltPath(dp, target) IN
              IF Exists(f, alt_path)
              THEN Verdict("Internal", "ok", <<>>, target, <<target, alt_path>>, 0, "none")
              ELSE Verdict("Internal", "error",
                           <<"File not found: ">> \o PathStr(target),
                           target, <<target, alt_path>>, 0, "none")
    ELSE Verdict("Internal", "ok", <<>>, target, <<target>>, 0, "none")

ValidateLink(f, dp, st, url, file_path, resp) ==
    LET kind == LinkKind(url) IN
    IF kind \in {"Mailto", "Anchor"}
    THEN Verdict(kind, "ok", <<>>, NoPath, <<>>, 0, "none")
    ELSE IF kind = "External"
    THEN CheckExternal(st, resp)
    ELSE CheckInternal(f, dp, url, file_path)

(***************************************************************************)
(* The document trees the validator is run on.                             *)
(***************************************************************************)
ProjDir == << <<"proj">> >>
DocsDir == ProjDir \o << <<"docs">> >>
SubDir == DocsDir \o << <<"sub">> >>
HashDir == DocsDir \o << <<"c", "#", "s">> >>
NestedDir == ProjDir \o << <<"proj">> >>
FileA == DocsDir \o << <<"a", ".", "md">> >>
FileB == DocsDir \o << <<"b", ".", "md">> >>
FileC == SubDir \o << <<"c", ".", "md">> >>
FileD == HashDir \o << <<"d", ".", "md">> >>
FileNotes == DocsDir \o << <<"notes", ".", "txt">> >>
FileProjB == ProjDir \o << <<"b", ".", "md">> >>
FileTopB == << <<"b", ".", "md">> >>
FileTrunc == DocsDir \o << <<"c">> >>
FileNestedB == NestedDir \o << <<"docs">>, <<"b", ".", "md">> >>
LinkLn == DocsDir \o << <<"ln">> >>
MdDir == DocsDir \o << <<"d", ".", "md">> >>
EmptyDir == ProjDir \o << <<"empty">> >>
OnlyDir == ProjDir \o << <<"only">> >>
OnlyMdDir == OnlyDir \o << <<"d", ".", "md">> >>
GoneDir == ProjDir \o << <<"gone">> >>

FsOptions == {"b_docs", "b_proj", "b_top", "hashdir", "c_trunc", "nested", "symlink"}

MakeFs(O) ==
    [dirs  |-> {<<>>, ProjDir, DocsDir, SubDir}
                 \cup (IF "hashdir" \in O THEN {HashDir} ELSE {})
                 \cup (IF "mddir" \in O THEN {MdDir} ELSE {})
                 \cup (IF "bare" \in O THEN {EmptyDir, OnlyDir, OnlyMdDir} ELSE {})
                 \cup (IF "nested" \in O THEN {NestedDir, NestedDir \o << <<"docs">> >>} ELSE {}),
     files |-> {FileA, FileC, FileNotes}
                 \cup (IF "b_docs" \in O THEN {FileB} ELSE {})
                 \cup (IF "b_proj" \in O THEN {FileProjB} ELSE {})
                 \cup (IF "b_top" \in O THEN {FileTopB} ELSE {})
                 \cup (IF "hashdir" \in O THEN {FileD} ELSE {})
                 \cup (IF "c_trunc" \in O THEN {FileTrunc} ELSE {})
                 \cup (IF "nested" \in O THEN {FileNestedB} ELSE {}),
     links |-> IF "symlink" \in O THEN {[at |-> LinkLn, to |-> ProjDir]} ELSE {}]

\* the path argument of the command line
Roots == {DocsDir, FileA, GoneDir, HashDir, FileD, FileNotes}

RECURSIVE Climb(_, _)
Climb(n, rest) == IF n = 0 THEN rest ELSE <<".", ".", "/">> \o Climb(n - 1, rest)

BMd == <<"b", ".", "md">>
NopeMd == <<"nope", ".", "md">>

\* the URLs written in the documents
UrlSet ==
    { <<".", "/">> \o BMd,
      <<".", "/">> \o BMd \o <<"#", "s">>,
      <<".", "/">> \o NopeMd,
      <<".", "/", "d", ".", "md">>,
      <<".", "/", ".", ".", "/", ".", ".", "/">> \o NopeMd,
      BMd,
      BMd \o <<"#", "s">>,
      <<"sub", "/", "c", ".", "md">>,
      <<"nope", "/", ".", ".", "/">> \o BMd,
      <<".", ".">>,
      <<"/">> \o BMd,
      <<"/", "/">> \o BMd,
      <<"/", "docs", "/">> \o BMd,
      <<"/", "docs", "/">> \o BMd \o <<"#", "s">>,
      <<"/", "proj", "/", "docs", "/">> \o BMd,
      <<"/">> \o NopeMd,
      <<"/">>,
      <<".", ".", "/", "docs", "/", "ln", "/", ".", ".", "/">> \o BMd,
      <<".", ".", "/", "nope", "/", ".", ".", "/">> \o BMd,
      <<".", ".", "/", "docs", "/">> \o BMd \o <<"#", "s", "/", ".", ".", "/">> \o NopeMd,
      <<"#", "s">>,
      <<"#">>,
      <<"#", "/">> \o BMd,
      <<"mailto", ":", "x">>,
      <<"mailto", ":", "/">> \o BMd,
      <<"mailto">>,
      <<"http", ":", "/", "/", "x">>,
      <<"https", ":", "/", "/", "x">>,
      <<"http", ":", "/", "/", "x", "#", "s">>,
      <<"http", ":", "/", "x">>,
      <<"https", ":", "x">>,
      <<"HTTP", ":", "/", "/", "x">>,
      <<"x", "#", "mailto", ":", "x">> }
    \cup {Climb(n, BMd) : n \in 1..MaxClimb}
    \cup {Climb(n, NopeMd) : n \in 1..MaxClimb}

\* what requests.head does: a response with a status code, or an exception
Responses ==
    {[raised |-> FALSE, code |-> c, cause |-> "none"] : c \in {200, 399, 400, 404}}
    \cup {[raised |-> TRUE, code |-> 0, cause |-> m] : m \in {"timeout", "dns"}}

NoResponse == [raised |-> FALSE, code |-> 200, cause |-> "none"]

\* the responses a link can get: only an external link in strict mode probes
ResponsesFor(st, url) ==
    IF st /\ LinkKind(url) = "External" THEN Responses ELSE {NoResponse}

NoVerdict == Verdict("none", "none", <<>>, NoPath, <<>>, 0, "none")

NoLast == [file |-> NoPath, url |-> <<>>, resp |-> NoResponse, v |-> NoVerdict]

(***************************************************************************)
(* SpecLink: _validate_link applied to one link of one discovered file.    *)
(***************************************************************************)
InitCommon ==
    /\ docs_path = Resolve(fs, docs_arg)
    /\ pc = "start"
    /\ files = <<>>
    /\ fidx = 0
    /\ links = <<>>
    /\ lidx = 0
    /\ result = [file |-> NoPath, errors |-> <<>>, warnings |-> <<>>, fixed |-> <<>>]
    /\ results = <<>>
    /\ validated_files = {}
    /\ exit_code = -1
    /\ exc = "none"
    /\ totals = [errors |-> 0, warnings |-> 0, fixed |-> 0, written |-> FALSE]
    /\ report = <<>>
    /\ reads = <<>>
    /\ evals = <<>>
    /\ probes = 0
    /\ warned = FALSE
    /\ discovered = FALSE
    /\ last = NoLast
    /\ texts = <<>>

\* update_toc.py is not run
InitNoToc ==
    /\ max_depth = 3
    /\ file_text = <<>>
    /\ writes = <<>>

InitLink ==
    /\ fs \in {MakeFs(O) : O \in SUBSET FsOptions}
    /\ docs_arg \in Roots
    /\ strict \in BOOLEAN
    /\ InitCommon
    /\ InitNoToc

LinkEval ==
    /\ last = NoLast
    /\ Exists(fs, docs_path)
    /\ \E i \in 1..Len(GetMarkdownFiles(fs, docs_path)) :
       \E url \in UrlSet :
       \E resp \in ResponsesFor(strict, url) :
          LET file_path == GetMarkdownFiles(fs, docs_path)[i] IN
          last' = [file |-> file_path, url |-> url, resp |-> resp,
                   v |-> ValidateLink(fs, docs_path, strict, url, file_path, resp)]
    /\ UNCHANGED <<fs, docs_arg, docs_path, strict,
                   pc, files, fidx, links, lidx, result, results, validated_files,
                   exit_code, exc, totals, report,
                   reads, evals, probes, warned, discovered, texts, tocvars>>

NextLink == LinkEval

SpecLink == InitLink /\ [][NextLink]_vars

(***************************************************************************)
(* SpecFiles: get_markdown_files on a root that exists.                    *)
(***************************************************************************)
\* the trees of SpecLink, with or without a directory named d.md
FilesOptions == FsOptions \cup {"mddir"}

InitFiles ==
    /\ fs \in {MakeFs(O) : O \in SUBSET FilesOptions}
    /\ docs_arg \in Roots
    /\ strict = FALSE
    /\ InitCommon
    /\ InitNoToc

\* lines 71-80, called at line 229
Discover ==
    /\ pc = "start"
    /\ Exists(fs, docs_path)
    /\ files' = GetMarkdownFiles(fs, docs_path)
    /\ discovered' = TRUE
    /\ pc' = "found"
    /\ UNCHANGED <<fs, docs_arg, docs_path, strict, fidx, links, lidx, result, results,
                   validated_files, exit_code, exc, totals, report,
                   reads, evals, probes, warned, last, texts, tocvars>>

NextFiles == Discover

SpecFiles == InitFiles /\ [][NextFiles]_vars

(***************************************************************************)
(* Spec: a run of validate_all.                                            *)
(***************************************************************************)
RunOptions == {"b_docs"}

\* beside the documents, an empty directory and a directory that holds
\* nothing but a directory named d.md
RunRoots == {DocsDir, FileA, GoneDir, FileNotes, EmptyDir, OnlyDir}

\* './a.md' exists beside a.md and b.md and is missing beside sub/c.md;
\* '../../nope.md' is missing, below the project root only from sub/c.md
RunUrls ==
    { <<"#", "s">>,
      <<".", "/", "a", ".", "md">>,
      Climb(2, NopeMd),
      <<"http", ":", "/", "/", "x">> }

RunResponses ==
    {[raised |-> FALSE, code |-> c, cause |-> "none"] : c \in {200, 404}}
    \cup {[raised |-> TRUE, code |-> 0, cause |-> "timeout"]}

RunResponsesFor(st, url) ==
    IF st /\ LinkKind(url) = "External" THEN RunResponses ELSE {NoResponse}

\* a line of a document: the URLs of its [text](url) matches, left to right
LinesUpTo(k) == UNION {[1..n -> RunUrls] : n \in 0..k}

RECURSIVE TotalLinks(_)
TotalLinks(c) == IF c = <<>> THEN 0 ELSE Len(Head(c)) + TotalLinks(Tail(c))

\* the documents of m lines with at most k links
RECURSIVE ContentsOf(_, _)
ContentsOf(m, k) ==
    IF m = 0 THEN {<<>>}
    ELSE UNION {{<<l>> \o c : c \in ContentsOf(m - 1, k - Len(l))} : l \in LinesUpTo(k)}

\* lines 99-105: enumerate(lines, 1) and link_regex.finditer(line)
RECURSIVE ExtractFrom(_, _)
ExtractFrom(c, n) ==
    IF n > Len(c) THEN <<>>
    ELSE [k \in 1..Len(c[n]) |-> [line |-> n, url |-> c[n][k]]] \o ExtractFrom(c, n + 1)

\* link_regex.search in place of finditer: the first match of a line only
RECURSIVE FirstMatchFrom(_, _)
FirstMatchFrom(c, n) ==
    IF n > Len(c) THEN <<>>
    ELSE (IF c[n] = <<>> THEN <<>> ELSE <<[line |-> n, url |-> c[n][1]]>>)
         \o FirstMatchFrom(c, n + 1)

ExtractLinks_FirstMatch(c) == FirstMatchFrom(c, 1)

ExtractLinks(c) == ExtractFrom(c, 1)

\* the text of a document: content.split('\n') has at least one line; a text
\* with links ends with the line of its last link
Contents ==
    {c \in UNION {ContentsOf(m, MaxLinks) : m \in 1..MaxLines} :
        Len(c) = 1 \/ c[Len(c)] # <<>>}

\* the text read from a document, when the documents of a tree hold at most
\* MaxLinks links in all and seen of them were read before
ContentsAfter ==
    [seen \in 0..MaxLinks |-> {c \in Contents : TotalLinks(c) + seen <= MaxLinks}]

Init ==
    /\ fs \in {MakeFs(O \cup {"bare"}) : O \in SUBSET RunOptions}
    /\ docs_arg \in RunRoots
    /\ strict \in BOOLEAN
    /\ InitCommon
    /\ InitNoToc

NewResult(file_path) ==
    [file |-> file_path, errors |-> <<>>, warnings |-> <<>>, fixed |-> <<>>]

\* line 96: the error of an unreadable file is a string
ReadError(cause) ==
    [isdict |-> FALSE, line |-> 0, url |-> <<>>, error |-> <<"Cannot read file: ", cause>>]

\* lines 110-115: the error of a link is a dict
LinkError(line_num, link_url, error) ==
    [isdict |-> TRUE, line |-> line_num, url |-> link_url, error |-> error]

\* lines 239-243: the next file of the loop, or the report after the last
AfterFile(i) == IF i < Len(files) THEN "file" ELSE "report"

\* validate_all without the test of line 225
ValidateAllStart_NoPathCheck ==
    /\ pc = "start"
    /\ files' = GetMarkdownFiles(fs, docs_path)
    /\ discovered' = TRUE
    /\ IF files' = <<>>
       THEN /\ warned' = TRUE
            /\ exit_code' = 0
            /\ pc' = "done"
            /\ fidx' = fidx
       ELSE /\ fidx' = 1
            /\ pc' = "file"
            /\ UNCHANGED <<warned, exit_code>>
    /\ UNCHANGED <<fs, docs_arg, docs_path, strict, links, lidx, result, results,
                   validated_files, exc, totals, report, reads, evals, probes, last, texts, tocvars>>

\* lines 225-236
ValidateAllStart ==
    /\ pc = "start"
    /\ IF ~Exists(fs, docs_path)
       THEN /\ exit_code' = 2
            /\ pc' = "done"
            /\ UNCHANGED <<files, fidx, warned, discovered>>
       ELSE /\ files' = GetMarkdownFiles(fs, docs_path)
            /\ discovered' = TRUE
            /\ IF files' = <<>>
               THEN /\ warned' = TRUE
                    /\ exit_code' = 0
                    /\ pc' = "done"
                    /\ fidx' = fidx
               ELSE /\ fidx' = 1
                    /\ pc' = "file"
                    /\ UNCHANGED <<warned, exit_code>>
    /\ UNCHANGED <<fs, docs_arg, docs_path, strict, links, lidx, result, results,
                   validated_files, exc, totals, report, reads, evals, probes, last, texts, tocvars>>

\* the exceptions of read_text: a directory cannot be read as text
ReadFailures(file_path) ==
    IF IsFile(fs, file_path)
    THEN {"UnicodeDecodeError", "PermissionError"}
    ELSE {"IsADirectoryError"}

\* lines 84-97: read_text raised; the result is returned with one error
ReadFileFails ==
    /\ pc = "file"
    /\ \E cause \in ReadFailures(files[fidx]) :
          results' = Append(results, [NewResult(files[fidx]) EXCEPT !.errors = <<ReadError(cause)>>])
    /\ reads' = Append(reads, files[fidx])
    /\ pc' = AfterFile(fidx)
    /\ fidx' = fidx + 1
    /\ UNCHANGED <<fs, docs_arg, docs_path, strict, files, links, lidx, result,
                   validated_files, exit_code, exc, totals, report, evals, probes,
                   warned, discovered, last, texts, tocvars>>

\* lines 84-99: read_text returned the text of the file
ReadFile ==
    /\ pc = "file"
    /\ IsFile(fs, files[fidx])
    /\ \E content \in ContentsAfter[Len(evals)] :
          /\ texts' = Append(texts, [file |-> files[fidx], lines |-> content])
          /\ links' = ExtractLinks(content)
    /\ lidx' = 1
    /\ result' = NewResult(files[fidx])
    /\ reads' = Append(reads, files[fidx])
    /\ pc' = "links"
    /\ UNCHANGED <<fs, docs_arg, docs_path, strict, files, fidx, results,
                   validated_files, exit_code, exc, totals, report, evals, probes,
                   warned, discovered, last, tocvars>>

\* a validator that keeps the verdict of a URL and reuses it for the same
\* URL in whatever file
ValidateFileLink_ReusesVerdict ==
    /\ pc = "links"
    /\ lidx <= Len(links)
    /\ \E resp \in RunResponsesFor(strict, links[lidx].url) :
          LET seen == {i \in 1..Len(evals) : evals[i].url = links[lidx].url}
              v == IF seen # {}
                   THEN evals[CHOOSE i \in seen : \A j \in seen : i <= j].v
                   ELSE ValidateLink(fs, docs_path, strict, links[lidx].url, files[fidx], resp)
          IN
          /\ evals' = Append(evals, [file |-> files[fidx], line |-> links[lidx].line,
                                     url |-> links[lidx].url, resp |-> resp, v |-> v])
          /\ probes' = probes + v.probes
          /\ IF v.out = "raise"
             THEN /\ pc' = "crashed"
                  /\ exc' = v.exc
                  /\ UNCHANGED <<result, lidx>>
             ELSE /\ result' = IF v.out = "error"
                               THEN [result EXCEPT !.errors =
                                        Append(@, LinkError(links[lidx].line, links[lidx].url, v.detail))]
                               ELSE result
                  /\ lidx' = lidx + 1
                  /\ UNCHANGED <<pc, exc>>
    /\ UNCHANGED <<fs, docs_arg, docs_path, strict, files, fidx, links, results,
                   validated_files, exit_code, totals, report, reads, warned,
                   discovered, last, texts, tocvars>>

\* lines 103-115: one match of the loop
ValidateFileLink ==
    /\ pc = "links"
    /\ lidx <= Len(links)
    /\ \E resp \in RunResponsesFor(strict, links[lidx].url) :
          LET v == ValidateLink(fs, docs_path, strict, links[lidx].url, files[fidx], resp) IN
          /\ evals' = Append(evals, [file |-> files[fidx], line |-> links[lidx].line,
                                     url |-> links[lidx].url, resp |-> resp, v |-> v])
          /\ probes' = probes + v.probes
          /\ IF v.out = "raise"
             THEN /\ pc' = "crashed"
                  /\ exc' = v.exc
                  /\ UNCHANGED <<result, lidx>>
             ELSE /\ result' = IF v.out = "error"
                               THEN [result EXCEPT !.errors =
                                        Append(@, LinkError(links[lidx].line, links[lidx].url, v.detail))]
                               ELSE result
                  /\ lidx' = lidx + 1
                  /\ UNCHANGED <<pc, exc>>
    /\ UNCHANGED <<fs, docs_arg, docs_path, strict, files, fidx, links, results,
                   validated_files, exit_code, totals, report, reads, warned,
                   discovered, last, texts, tocvars>>

\* a validate_file that adds the errors of its file to a counter of the
\* validator
ValidateFileEnd_CountsErrors ==
    /\ pc = "links"
    /\ lidx > Len(links)
    /\ validated_files' = validated_files \cup {files[fidx]}
    /\ results' = Append(results, result)
    /\ totals' = [totals EXCEPT !.errors = @ + Len(result.errors)]
    /\ pc' = AfterFile(fidx)
    /\ fidx' = fidx + 1
    /\ UNCHANGED <<fs, docs_arg, docs_path, strict, files, links, lidx, result,
                   exit_code, exc, report, reads, evals, probes, warned,
                   discovered, last, texts, tocvars>>

\* lines 117-118 and 241
ValidateFileEnd ==
    /\ pc = "links"
    /\ lidx > Len(links)
    /\ validated_files' = validated_files \cup {files[fidx]}
    /\ results' = Append(results, result)
    /\ pc' = AfterFile(fidx)
    /\ fidx' = fidx + 1
    /\ UNCHANGED <<fs, docs_arg, docs_path, strict, files, links, lidx, result,
                   exit_code, exc, totals, report, reads, evals, probes, warned,
                   discovered, last, texts, tocvars>>

\* lines 192-195: error['line'] raises TypeError on an error that is a string
FirstString(errors) ==
    IF \E i \in 1..Len(errors) : ~errors[i].isdict
    THEN CHOOSE i \in 1..Len(errors) :
            ~errors[i].isdict /\ \A j \in 1..(i - 1) : errors[j].isdict
    ELSE 0

\* lines 183-205: the loop over the results
RECURSIVE ReportFrom(_, _, _)
ReportFrom(rs, i, acc) ==
    IF i > Len(rs) THEN acc
    ELSE LET r == rs[i] IN
         IF r.errors = <<>> /\ r.warnings = <<>>
         THEN ReportFrom(rs, i + 1,
                [acc EXCEPT !.printed = Append(@, [file |-> r.file, errors |-> <<>>])])
         ELSE LET k == FirstString(r.errors)
                  shown == IF k = 0 THEN r.errors ELSE SubSeq(r.errors, 1, k - 1)
                  acc1 == [acc EXCEPT !.errors = @ + Len(r.errors),
                                      !.printed = Append(@, [file |-> r.file, errors |-> shown])]
              IN IF k # 0
                 THEN [acc1 EXCEPT !.exc = "TypeError"]
                 ELSE ReportFrom(rs, i + 1,
                        [acc1 EXCEPT !.warnings = @ + Len(r.warnings),
                                     !.fixed = @ + Len(r.fixed)])

\* lines 173-221 and 243-245
GenerateReport ==
    /\ pc = "report"
    /\ LET acc == ReportFrom(results, 1,
                    [errors |-> 0, warnings |-> 0, fixed |-> 0, printed |-> <<>>, exc |-> "none"])
       IN /\ report' = acc.printed
          /\ totals' = [errors |-> acc.errors, warnings |-> acc.warnings,
                        fixed |-> acc.fixed, written |-> TRUE]
          /\ IF acc.exc # "none"
             THEN /\ pc' = "crashed"
                  /\ exc' = acc.exc
                  /\ UNCHANGED exit_code
             ELSE /\ pc' = "done"
                  /\ exit_code' = IF acc.errors > 0 THEN 1 ELSE 0
                  /\ UNCHANGED exc
    /\ UNCHANGED <<fs, docs_arg, docs_path, strict, files, fidx, links, lidx, result,
                   results, validated_files, reads, evals, probes, warned,
                   discovered, last, texts, tocvars>>

Next ==
    \/ ValidateAllStart
    \/ ReadFileFails
    \/ ReadFile
    \/ ValidateFileLink
    \/ ValidateFileEnd
    \/ GenerateReport

Spec == Init /\ [][Next]_vars

(***************************************************************************)
(* update_toc.py: TableOfContentsGenerator.  A text is the sequence of its  *)
(* lines, each ended by a newline; a heading line is its level (the number *)
(* of '#') and its text, a sequence of words.                              *)
(***************************************************************************)
Line(kind, level, text, anchor) ==
    [kind |-> kind, level |-> level, text |-> text, anchor |-> anchor]

HeadingLine(level, text) == Line("heading", level, text, <<>>)

\* self.toc_marker and self.toc_end_marker, each on a line of its own
TocMarker == Line("toc", 0, <<>>, <<>>)
TocEndMarker == Line("tocend", 0, <<>>, <<>>)
BlankLine == Line("blank", 0, <<>>, <<>>)
TextLine == Line("text", 0, <<"p">>, <<>>)

\* str.lower
Lower(w) ==
    CASE w = "T" -> "t"
      [] w = "A" -> "a"
      [] w = "B" -> "b"
      [] w = "Table" -> "table"
      [] w = "Contents" -> "contents"
      [] OTHER -> w

\* lines 79-91: lower case, each run of spaces a hyphen
RECURSIVE TextToAnchor(_)
TextToAnchor(text) ==
    IF text = <<>> THEN <<>>
    ELSE IF Len(text) = 1 THEN <<Lower(text[1])>>
    ELSE <<Lower(text[1]), "-">> \o TextToAnchor(Tail(text))

\* heading_regex: a line of one or more '#', spaces and a text
IsHeading(l) == l.kind = "heading"

\* lines 59-77: the headings below level 1 that max_depth lets in
RECURSIVE ExtractHeadings(_, _)
ExtractHeadings(c, md) ==
    IF c = <<>> THEN <<>>
    ELSE LET l == Head(c) IN
         (IF IsHeading(l) /\ l.level # 1 /\ ~(l.level - 1 > md)
          THEN <<[level |-> l.level, text |-> l.text]>>
          ELSE <<>>)
         \o ExtractHeadings(Tail(c), md)

\* the line '## Table of Contents' of line 98
TocTitle == HeadingLine(2, <<"Table", "of", "Contents">>)

\* lines 93-107: the title, an empty line and one item for each heading
GenerateToc(headings) ==
    IF headings = <<>> THEN <<>>
    ELSE <<TocTitle, BlankLine>>
         \o [i \in 1..Len(headings) |->
               Line("item", headings[i].level, headings[i].text,
                    TextToAnchor(headings[i].text))]

\* re.search: the first line of a kind, 0 when there is none
FirstLine(c, kind) ==
    IF \E i \in 1..Len(c) : c[i].kind = kind
    THEN CHOOSE i \in 1..Len(c) :
            c[i].kind = kind /\ \A j \in 1..(i - 1) : c[j].kind # kind
    ELSE 0

\* lines 109-117: the first start marker and the first end marker
ExtractTocSection(c) ==
    [found |-> FirstLine(c, "toc") # 0 /\ FirstLine(c, "tocend") # 0,
     start |-> FirstLine(c, "toc"),
     end |-> FirstLine(c, "tocend")]

\* lines 119-150
UpdateContentWithToc(c, toc) ==
    LET toc_section == ExtractTocSection(c) IN
    IF toc_section.found
    THEN SubSeq(c, 1, toc_section.start - 1)
         \o <<TocMarker, BlankLine>> \o toc \o <<BlankLine, TocEndMarker>>
         \o SubSeq(c, toc_section.end + 1, Len(c))
    ELSE LET heading_match == FirstLine(c, "heading") IN
         IF heading_match # 0
         THEN SubSeq(c, 1, heading_match)
              \o <<BlankLine, TocMarker, BlankLine>> \o toc \o <<BlankLine, TocEndMarker>>
              \o SubSeq(c, heading_match + 1, Len(c))
         ELSE c

\* the lines of the documents
DocLines ==
    {HeadingLine(1, <<"T">>), HeadingLine(2, <<"A">>), HeadingLine(3, <<"B">>),
     TextLine, TocMarker, TocEndMarker}

Documents == UNION {[1..n -> DocLines] : n \in 0..MaxDocLines}

InitToc ==
    /\ fs = MakeFs({})
    /\ docs_arg = DocsDir
    /\ strict = FALSE
    /\ InitCommon
    /\ max_depth \in {1, 3}
    /\ file_text \in Documents
    /\ writes = <<>>

\* lines 152-195, with --in-place: a file without headings is left alone
ProcessFile ==
    /\ Len(writes) < MaxRuns
    /\ LET headings == ExtractHeadings(file_text, max_depth) IN
       /\ headings # <<>>
       /\ LET new_content == UpdateContentWithToc(file_text, GenerateToc(headings)) IN
          /\ file_text' = new_content
          /\ writes' = Append(writes, new_content)
    /\ UNCHANGED <<fs, docs_arg, docs_path, strict,
                   pc, files, fidx, links, lidx, result, results, validated_files,
                   exit_code, exc, totals, report,
                   reads, evals, probes, warned, discovered, last, texts, max_depth>>

NextToc == ProcessFile

SpecToc == InitToc /\ [][NextToc]_vars

(***************************************************************************)
(* Properties.                                                             *)
(***************************************************************************)
Evaluated == last # NoLast

IsInternal(url) == LinkKind(url) = "Internal"

\* the URL of a link without its fragment
NoFragment(url) == SplitHash0(url)

\* the re-rooted alternate of spec section 4.4, step 4: the candidate path,
\* its leading separator stripped, joined to the project root
ReRooted(dp, target) == ProjectRoot(dp) \o target

\* C1: an Internal link whose URL begins with '/' is resolved against the
\* project root, the URL's leading slash removed, and never against the
\* directory of the source file, for a directory root and a single-file root.
C1_AbsoluteNeverUsesSourceDir ==
    (Evaluated /\ IsInternal(last.url) /\ StartsWith(last.url, <<"/">>)) =>
        /\ last.v.target = ProjectRoot(docs_path) \o Segs(NoFragment(last.url))
        /\ last.v.target # Parent(last.file) \o Segs(NoFragment(last.url))

\* C2: a link './NAME' in a file of directory D is Ok if and only if D/NAME
\* exists.
C2_DotSlashOkIffSiblingExists ==
    (Evaluated /\ StartsWith(last.url, <<".", "/">>)) =>
        (last.v.out = "ok" <=>
            Exists(fs, Parent(last.file) \o Segs(NoFragment(last.url))))

\* C3: an Internal link whose candidate and whose re-rooted alternate are both
\* missing is Broken, with detail 'File not found: ' and the candidate path,
\* however far a '../' URL climbs.
C3_MissingIsBrokenWithDetail ==
    (/\ Evaluated
     /\ IsInternal(last.url)
     /\ ~Exists(fs, last.v.target)
     /\ ~Exists(fs, ReRooted(docs_path, last.v.target))) =>
        /\ last.v.out = "error"
        /\ last.v.detail = <<"File not found: ">> \o PathStr(last.v.target)

\* C4: when the candidate of an Internal link is missing, the alternate path
\* is checked as well, and the link is Ok when the alternate exists.
C4_FallbackFindsAlternate ==
    (Evaluated /\ IsInternal(last.url) /\ ~Exists(fs, last.v.target)) =>
        /\ Len(last.v.checks) = 2
        /\ (Exists(fs, ReRooted(docs_path, last.v.target)) => last.v.out = "ok")

\* C5: every evaluation of a link returns a verdict; none aborts the run.
C5_NoLinkAbortsTheRun ==
    /\ \A i \in 1..Len(evals) : evals[i].v.out \in {"ok", "error"}
    /\ pc = "crashed" => exc # "ValueError"

Finished == pc \in {"done", "crashed"}

SomeLinkFailed == \E i \in 1..Len(evals) : evals[i].v.out = "error"

\* C6: a run over an existing root with markdown files returns 1 when some
\* link is Broken or CheckFailed, and 0 when none is.
C6_ExitCodeTellsBrokenLinks ==
    (Finished /\ discovered /\ files # <<>>) =>
        exit_code = IF SomeLinkFailed THEN 1 ELSE 0

SomeFileUnreadable ==
    \E i \in 1..Len(results) :
        \E k \in 1..Len(results[i].errors) : ~results[i].errors[k].isdict

\* C7: with an unreadable file the run still completes: every file gets its
\* result, the report covers all of them and an exit status is returned.
C7_UnreadableFileDoesNotStopTheRun ==
    (Finished /\ SomeFileUnreadable) =>
        /\ pc = "done"
        /\ Len(results) = Len(files)
        /\ Len(report) = Len(files)
        /\ exit_code \in {0, 1}

\* C8: with a root that does not exist, validate_all returns 2, before the
\* discovery of files, before any read and before any link is evaluated.
C8_MissingRootReturnsTwoFirst ==
    (~Exists(fs, docs_path) /\ pc # "start") =>
        /\ pc = "done"
        /\ exit_code = 2
        /\ ~discovered
        /\ files = <<>>
        /\ reads = <<>>
        /\ evals = <<>>
        /\ probes = 0
        /\ ~warned

C8_Witness ==
    /\ ~Exists(fs, docs_path)
    /\ pc = "done"
    /\ exit_code = 2
    /\ docs_arg = GoneDir

\* C9: a link whose URL starts with 'mailto:' or '#' is Ok in either mode,
\* whatever exists, and nothing is looked up on the filesystem or probed.
C9_MailtoAndAnchorAlwaysOk ==
    (/\ Evaluated
     /\ \/ StartsWith(last.url, <<"mailto", ":">>)
        \/ StartsWith(last.url, <<"#">>)) =>
        /\ last.v.out = "ok"
        /\ last.v.checks = <<>>
        /\ last.v.probes = 0

C9_Witness ==
    /\ Evaluated
    /\ strict
    /\ last.url = <<"#", "/">> \o BMd
    /\ last.file = FileD
    /\ ~Exists(fs, FileB)
    /\ last.v.out = "ok"

\* the kind of spec section 4.3, by the first rule that matches
ClaimedKind(url) ==
    CASE Len(url) >= 2 /\ url[1] = "mailto" /\ url[2] = ":" -> "Mailto"
      [] Len(url) >= 1 /\ url[1] = "#" -> "Anchor"
      [] /\ Len(url) >= 4
         /\ url[1] \in {"http", "https"}
         /\ <<url[2], url[3], url[4]>> = <<":", "/", "/">> -> "External"
      [] OTHER -> "Internal"

\* C10: the kind of a link follows from its URL alone, by the first matching
\* rule: 'mailto:' Mailto, '#' Anchor, 'http://' or 'https://' External,
\* anything else Internal; only an Internal link is looked up on the
\* filesystem and only an External one is probed.
C10_KindByFirstMatchingRule ==
    Evaluated =>
        /\ last.v.kind = ClaimedKind(last.url)
        /\ (last.v.checks # <<>> <=> ClaimedKind(last.url) = "Internal")
        /\ (last.v.probes = 1 <=> (strict /\ ClaimedKind(last.url) = "External"))

C10_Witness ==
    /\ Evaluated
    /\ last.url = <<"HTTP", ":", "/", "/", "x">>
    /\ strict
    /\ last.v.kind = "Internal"
    /\ last.v.probes = 0

RECURSIVE FlatErrors(_)
FlatErrors(rs) == IF rs = <<>> THEN <<>> ELSE Head(rs).errors \o FlatErrors(Tail(rs))

\* the error entries of the run so far: those of the finished files and those
\* of the file being validated
ErrorEntries ==
    FlatErrors(results) \o (IF pc = "links" \/ (pc = "crashed" /\ exc = "ValueError")
                         THEN result.errors ELSE <<>>)

HttpX == <<"http", ":", "/", "/", "x">>

\* C11: without --strict every External link is Ok and no probe is sent at
\* any point of the run.
C11_NonStrictNeverProbes ==
    ~strict =>
        /\ probes = 0
        /\ \A i \in 1..Len(evals) :
              /\ evals[i].v.probes = 0
              /\ ClaimedKind(evals[i].url) = "External" => evals[i].v.out = "ok"
        /\ \A k \in 1..Len(ErrorEntries) :
              ErrorEntries[k].isdict => ClaimedKind(ErrorEntries[k].url) # "External"

C11_Witness ==
    /\ ~strict
    /\ pc = "done"
    /\ Len(evals) = MaxLinks
    /\ \A i \in 1..Len(evals) : evals[i].url = HttpX /\ evals[i].v.out = "ok"
    /\ probes = 0
    /\ exit_code = 0

\* C12: in strict mode an External link whose probe answers with a status
\* code of 400 or more is Broken with the detail 'HTTP <code>', and one whose
\* probe answers with a code below 400 is Ok.
C12_StatusCodeDecides ==
    (/\ Evaluated
     /\ strict
     /\ ClaimedKind(last.url) = "External"
     /\ ~last.resp.raised) =>
        /\ last.resp.code >= 400 =>
              /\ last.v.out = "error"
              /\ last.v.detail = <<"HTTP ", ToString(last.resp.code)>>
        /\ last.resp.code < 400 => last.v.out = "ok"

C12_Witness ==
    /\ Evaluated
    /\ strict
    /\ last.url = HttpX
    /\ last.resp = [raised |-> FALSE, code |-> 400, cause |-> "none"]
    /\ last.v.out = "error"
    /\ last.v.detail = <<"HTTP ", "400">>

IsError(e) == e.v.out = "error"

IsDict(e) == e.isdict

\* the error entry validate_file makes of a failed evaluation
EntryOf(e) == LinkError(e.line, e.url, e.v.detail)

TransportFailed(e) ==
    strict /\ ClaimedKind(e.url) = "External" /\ e.resp.raised

\* C13: in strict mode an External link whose probe fails at transport level
\* is CheckFailed: its detail 'External link check failed: ...' differs from
\* the details of a Broken link, the failure is recorded once, for that link
\* only, and a run that returns with it returns 1.
C13_TransportFailureIsCheckFailed ==
    /\ \A i \in 1..Len(evals) :
          TransportFailed(evals[i]) =>
             /\ evals[i].v.out = "error"
             /\ evals[i].v.detail = <<"External link check failed: ", evals[i].resp.cause>>
             /\ evals[i].v.detail[1] \notin {"HTTP ", "File not found: "}
             /\ pc = "done" => exit_code = 1
    /\ LET failed == SelectSeq(evals, IsError)
           entries == SelectSeq(ErrorEntries, IsDict)
       IN entries = [k \in 1..Len(failed) |-> EntryOf(failed[k])]

C13_Witness ==
    /\ pc = "done"
    /\ exit_code = 1
    /\ Len(evals) = 2
    /\ TransportFailed(evals[1])
    /\ evals[2].url = <<".", "/", "a", ".", "md">>
    /\ evals[2].v.out = "ok"
    /\ Len(ErrorEntries) = 1
    /\ ErrorEntries[1].url = HttpX

IsExternalLink(l) == ClaimedKind(l.url) = "External"

IsExternalEval(e) == ClaimedKind(e.url) = "External"

\* the External link occurrences of the texts read so far
RECURSIVE ExternalOccurrences(_)
ExternalOccurrences(ts) ==
    IF ts = <<>> THEN 0
    ELSE Len(SelectSeq(ExtractLinks(Head(ts).lines), IsExternalLink))
         + ExternalOccurrences(Tail(ts))

\* C14: in strict mode every External link occurrence is probed exactly once
\* over the whole run: a finished run has sent as many probes as the texts it
\* read hold External links, one at each evaluation of such a link.
C14_OneProbePerExternalLink ==
    strict =>
        /\ \A i \in 1..Len(evals) :
              evals[i].v.probes = IF IsExternalEval(evals[i]) THEN 1 ELSE 0
        /\ probes = Len(SelectSeq(evals, IsExternalEval))
        /\ Finished => probes = ExternalOccurrences(texts)

\* C15: of an Internal link only the part of the raw URL from its '#' on is
\* removed, before the resolution: the path whose existence is checked is the
\* resolution of the fragment-free URL against the unaltered base directory,
\* also when the path of that directory contains a '#'.
C15_OnlyTheFragmentIsRemoved ==
    (Evaluated /\ IsInternal(last.url)) =>
        /\ last.v.checks # <<>>
        /\ last.v.checks[1] = Candidate(fs, docs_path, NoFragment(last.url), last.file)

\* the segments of a path text with its '.' and '..' segments collapsed one
\* against the other, the filesystem not consulted (os.path.normpath)
RECURSIVE NormFrom(_, _)
NormFrom(acc, rest) ==
    IF rest = <<>> THEN acc
    ELSE IF Head(rest) = <<".">> THEN NormFrom(acc, Tail(rest))
    ELSE IF Head(rest) = DotDot
    THEN NormFrom(IF acc = <<>> THEN <<>> ELSE SubSeq(acc, 1, Len(acc) - 1), Tail(rest))
    ELSE NormFrom(Append(acc, Head(rest)), Tail(rest))

LexicalNorm(p) == NormFrom(<<>>, p)

\* C16: for a URL that starts with '../' the candidate is the directory of
\* the source file joined with the URL and normalized lexically: '..' is
\* collapsed against the segment before it, and a symbolic link on the way
\* is not followed.
C16_DotDotIsCollapsedLexically ==
    (/\ Evaluated
     /\ StartsWith(last.url, <<".", ".", "/">>)
     /\ ~HasHash(last.url)
     /\ ~HasHash(PathStr(Parent(last.file)))) =>
        last.v.target = LexicalNorm(JoinPath(Parent(last.file), last.url))

IsInternalEval(e) == ClaimedKind(e.url) = "Internal"

\* C17: the verdict and detail of an Internal link are a function of the
\* source file, the raw URL and the documentation root over the filesystem:
\* every evaluation of a run, whatever was validated before it, gives the
\* result of that function, and two evaluations of the same URL in the same
\* file agree.
C17_InternalVerdictIgnoresHistory ==
    /\ docs_path = Resolve(fs, docs_arg)
    /\ \A i \in 1..Len(evals) :
          IsInternalEval(evals[i]) =>
             LET v == CheckInternal(fs, docs_path, evals[i].url, evals[i].file) IN
             /\ evals[i].v.out = v.out
             /\ evals[i].v.detail = v.detail
    /\ \A i, j \in 1..Len(evals) :
          (/\ IsInternalEval(evals[i])
           /\ evals[i].file = evals[j].file
           /\ evals[i].url = evals[j].url) =>
             /\ evals[i].v.out = evals[j].v.out
             /\ evals[i].v.detail = evals[j].v.detail

C17_Witness ==
    /\ pc = "done"
    /\ Len(evals) = 2
    /\ validated_files = {FileA, FileC}
    /\ evals[1].file = FileC
    /\ evals[2].file = FileC
    /\ evals[1].line < evals[2].line
    /\ evals[1].url = <<".", "/", "a", ".", "md">>
    /\ evals[2].url = evals[1].url
    /\ evals[1].v.out = "error"
    /\ evals[2].v.out = "error"

\* the occurrences of [text](url) in a text: file, 1-based line, URL
RECURSIVE OccurrencesOf(_, _)
OccurrencesOf(t, n) ==
    IF n > Len(t.lines) THEN <<>>
    ELSE [k \in 1..Len(t.lines[n]) |-> <<t.file, n, t.lines[n][k]>>]
         \o OccurrencesOf(t, n + 1)

RECURSIVE Occurrences(_)
Occurrences(ts) ==
    IF ts = <<>> THEN <<>> ELSE OccurrencesOf(Head(ts), 1) \o Occurrences(Tail(ts))

Completed == pc = "done" /\ discovered /\ files # <<>>

\* C18: in a completed run every discovered file was read and every
\* [text](url) occurrence of every file, all the matches of a line, was
\* evaluated exactly once, with its file and its 1-based line number.
C18_EveryOccurrenceEvaluatedOnce ==
    Completed =>
        /\ [i \in 1..Len(texts) |-> texts[i].file] = files
        /\ [i \in 1..Len(evals) |-> <<evals[i].file, evals[i].line, evals[i].url>>]
              = Occurrences(texts)
        /\ \A i \in 1..Len(evals) :
              /\ evals[i].line >= 1
              /\ Cardinality({j \in 1..Len(texts) : texts[j].file = evals[i].file}) = 1

C18_Witness ==
    /\ Completed
    /\ Len(files) = 2
    /\ texts[1].lines = << <<>> >>
    /\ Len(texts[2].lines) = 2
    /\ texts[2].lines[1] = <<>>
    /\ Len(texts[2].lines[2]) = 2
    /\ Len(evals) = 2
    /\ evals[1].line = 2
    /\ evals[2].line = 2
    /\ evals[1].url # evals[2].url

Prefix(s, n) == SubSeq(s, 1, n)

\* C19: the files are validated in ascending path order and the links of a
\* file in extraction order; the results, the entries of the report and the
\* error entries inside them are in that same order.
C19_EverythingInSortedOrder ==
    /\ \A i, j \in 1..Len(files) : i < j => PathLess(files[i], files[j])
    /\ reads = Prefix(files, Len(reads))
    /\ [i \in 1..Len(evals) |-> <<evals[i].file, evals[i].line, evals[i].url>>]
          = Prefix(Occurrences(texts), Len(evals))
    /\ [i \in 1..Len(results) |-> results[i].file] = Prefix(files, Len(results))
    /\ SelectSeq(ErrorEntries, IsDict)
          = [k \in 1..Len(SelectSeq(evals, IsError)) |-> EntryOf(SelectSeq(evals, IsError)[k])]
    /\ Len(report) <= Len(results)
    /\ \A i \in 1..Len(report) :
          /\ report[i].file = results[i].file
          /\ report[i].errors = Prefix(results[i].errors, Len(report[i].errors))
          /\ pc = "done" => report[i].errors = results[i].errors
    /\ Completed => Len(report) = Len(files)

C19_Witness ==
    /\ Completed
    /\ files = <<FileA, FileB, FileC>>
    /\ Len(report) = 3
    /\ report[3].file = FileC
    /\ Len(report[3].errors) = 2
    /\ report[3].errors[1].line = 1
    /\ report[3].errors[2].line = 1
    /\ report[3].errors[1].url = <<".", "/", "a", ".", "md">>
    /\ report[3].errors[2].url = Climb(2, NopeMd)

Elements(s) == {s[i] : i \in 1..Len(s)}

\* the regular files below a directory whose name ends in '.md'
MarkdownFilesBelow(f, dp) ==
    {p \in f.files : IsUnder(p, dp) /\ HasMdSuffix(p)}

\* C20: get_markdown_files returns, each once and in ascending path order,
\* the root itself when it is a file with the extension '.md' and nothing
\* when it is another file, and for a directory root exactly the regular
\* files with that extension at any depth below it.
C20_DiscoversExactlyTheMarkdownFiles ==
    (discovered /\ pc = "found") =>
        /\ \A i, j \in 1..Len(files) : i < j => PathLess(files[i], files[j])
        /\ Elements(files) =
              IF IsFile(fs, docs_path)
              THEN IF HasMdSuffix(docs_path) THEN {docs_path} ELSE {}
              ELSE MarkdownFilesBelow(fs, docs_path)

\* a root without a markdown file: a file of another extension, or a
\* directory with no regular file named *.md at any depth
NoMarkdownFile ==
    /\ Exists(fs, docs_path)
    /\ IF IsFile(fs, docs_path)
       THEN ~HasMdSuffix(docs_path)
       ELSE MarkdownFilesBelow(fs, docs_path) = {}

\* C21: on a root that exists and holds no markdown file validate_all warns,
\* validates nothing and returns 0.
C21_NoMarkdownFilesWarnsAndReturnsZero ==
    (NoMarkdownFile /\ pc # "start") =>
        /\ pc = "done"
        /\ warned
        /\ exit_code = 0
        /\ reads = <<>>
        /\ evals = <<>>
        /\ results = <<>>
        /\ probes = 0

\* C22: every run of validate_all comes to its end, the loops over the files
\* and over the links of a file running to the end of their lists, and the
\* run ends with the return of one of the exit codes 0, 1 and 2.
C22_TerminatesWithAnExitCode ==
    /\ fidx <= Len(files) + 1
    /\ lidx <= Len(links) + 1
    /\ pc \in {"start", "file", "links", "report", "done", "crashed"}
    /\ Finished => (pc = "done" /\ exit_code \in {0, 1, 2})

NoTotals == [errors |-> 0, warnings |-> 0, fixed |-> 0, written |-> FALSE]

\* the counters are written by generate_report alone, once every file has
\* its result
CountersOwnedByTheReport ==
    /\ pc \in {"start", "file", "links", "report"} => totals = NoTotals
    /\ totals.written =>
          /\ Finished
          /\ Len(results) = Len(files)
          /\ pc = "done" => totals.errors = Len(ErrorEntries)

\* the files whose validation ran to its end
FullyValidated ==
    {results[i].file : i \in {k \in 1..Len(results) :
        \A e \in 1..Len(results[k].errors) : results[k].errors[e].isdict}}

C24_FallbackIsTheCandidate ==
    (/\ Evaluated
     /\ IsInternal(last.url)
     /\ IsUnder(last.v.target, ProjectRoot(docs_path))) =>
        /\ last.v.out \in {"ok", "error"}
        /\ last.v.checks[1] = last.v.target
        /\ (Len(last.v.checks) = 2 => last.v.checks[2] = last.v.target)
        /\ (last.v.out = "ok" <=> Exists(fs, last.v.target))

C24_Witness ==
    /\ Evaluated
    /\ last.file = FileA
    /\ last.url = <<".", "/">> \o NopeMd
    /\ docs_path = DocsDir
    /\ ~Exists(fs, last.v.target)
    /\ last.v.checks = <<last.v.target, last.v.target>>
    /\ last.v.out = "error"

\* C25: a second run of update_toc in place leaves the file as the first run
\* wrote it.
C25_SecondRunChangesNothing ==
    Len(writes) >= 2 => writes[2] = writes[1]

====
